---- MODULE Spec2Model ----
(***************************************************************************)
(* Model of finances/expenses: the waterfall layouts of expense_charts.py  *)
(* (plot_expenses_waterfall, plot_category_waterfall) and the value        *)
(* normalization of expense_models.py (normalize_value, get_fx_rate,       *)
(* time_conversion_factor, days_in_time_unit, load_expenses).              *)
(*                                                                         *)
(* Numbers: monetary values of the charts are integers; the conversion     *)
(* factors of the normalization are exact rationals <<num, den>>.          *)
(* Python's None is "None" where a string is optional and the empty tuple  *)
(* where a number is optional.                                             *)
(***************************************************************************)
EXTENDS Integers, Sequences, FiniteSets

\* ------------------------------------------------------------------ bounds
MaxItems == 3
MaxExpenses == 1

None == "None"
NoneNum == << >>

\* The monthly values a row of the data frame may carry: small values of both
\* signs (ties, a zero and a negative grand total) and one larger value, with
\* which 100 * value / total falls exactly between two integers (1 of 8).
Values == {-1, 0, 1, 7}

\* A row's name and category. plot_expenses_waterfall reads the names and
\* plot_category_waterfall the categories, never both, so pairing them loses
\* no sequence of names and no sequence of categories.
NameCategory == { <<"Rent", "Housing">>, <<"Gym", "Food">>, <<"Cash", None>> }

Rows == { [name |-> nc[1], category |-> nc[2], monthly_value_eur |-> v] :
            nc \in NameCategory, v \in Values }

DataFrames == UNION { [1..n -> Rows] : n \in 0..MaxItems }

\* pandas sorts group keys; the order of the category strings.
CategoryOrder == << "Food", "Housing" >>

VARIABLES
  df,              \* the data frame handed to the plot functions
  chart,           \* "none" | "expenses" | "category": the layout last computed
  sorted_indices,  \* np.argsort's result (1-based positions of the input rows)
  insert_at,       \* Python index of the TOTAL row
  all_names, all_values, all_cumulative,   \* the three lists handed to barh
  total_value,
  percents,        \* the label percent of each bar, in row order
  raw_expenses,    \* load_expenses: the records of the expense file
  loaded,          \* load_expenses: its outcome
  expense,         \* the Expense normalize_value is called with
  call             \* the last call of normalize_value / get_fx_rate and its outcome

chartVars == << df, chart, sorted_indices, insert_at, all_names, all_values,
                all_cumulative, total_value, percents >>
loadVars == << raw_expenses, loaded >>
normVars == << expense, call >>
vars == << chartVars, loadVars, normVars >>

\* ------------------------------------------------------------ numpy helpers

\* Mutant of np_sum: the total read off the last exclusive offset, which
\* leaves the last value out.
RECURSIVE sum_but_last(_)
sum_but_last(v) == IF Len(v) <= 1 THEN 0 ELSE v[1] + sum_but_last(Tail(v))

RECURSIVE np_sum(_)
np_sum(v) == IF Len(v) = 0 THEN 0 ELSE v[1] + np_sum(Tail(v))

\* np.cumsum: inclusive running sum.
RECURSIVE np_cumsum(_)
np_cumsum(v) ==
  IF Len(v) = 0 THEN << >>
  ELSE LET front == np_cumsum(SubSeq(v, 1, Len(v) - 1))
       IN Append(front, (IF Len(front) = 0 THEN 0 ELSE front[Len(front)]) + v[Len(v)])

\* v[idx]: numpy fancy indexing with an index array.
Take(v, idx) == [i \in 1..Len(idx) |-> v[idx[i]]]

\* np.argsort(v) with the default kind: an index array that orders v
\* ascending. The default kind ("quicksort") gives no guarantee on the order
\* of equal elements, so every ascending arrangement is a possible result.
RECURSIVE ascending(_, _)
ascending(v, S) ==
  IF S = {} THEN { << >> }
  ELSE LET least == { i \in S : \A j \in S : v[i] <= v[j] }
       IN UNION { { << i >> \o rest : rest \in ascending(v, S \ {i}) } : i \in least }

np_argsort(v) == ascending(v, 1..Len(v))

\* np.where(v == x)[0]: the Python indices (0-based) of the matches, ascending.
RECURSIVE np_where_eq(_, _)
np_where_eq(v, x) ==
  IF Len(v) = 0 THEN << >>
  ELSE LET front == np_where_eq(SubSeq(v, 1, Len(v) - 1), x)
       IN IF v[Len(v)] = x THEN Append(front, Len(v) - 1) ELSE front

\* Mutant of list_insert: list[at] = x, an assignment in place of an insertion.
list_assign(list, at, x) ==
  SubSeq(list, 1, at) \o << x >> \o SubSeq(list, at + 2, Len(list))

\* list.insert(at, x) for 0 <= at <= len(list).
list_insert(list, at, x) ==
  SubSeq(list, 1, at) \o << x >> \o SubSeq(list, at + 1, Len(list))

\* Mutant of round_div: ties rounded up.
round_half_up(num, den) == (2 * num + den) \div (2 * den)

\* round() of the quotient num / den, den > 0: to nearest, ties to even.
round_div(num, den) ==
  LET q == num \div den
      r == num % den
  IN IF 2 * r < den THEN q
     ELSE IF 2 * r > den THEN q + 1
     ELSE IF q % 2 = 0 THEN q ELSE q + 1

\* ------------------------------------------------------- waterfall layouts

\* Mutant of cumulative: the inclusive running sum.
cumulative_inclusive(values_sorted) == np_cumsum(values_sorted)

\* cumulative = np.cumsum(values_sorted) - values_sorted
cumulative(values_sorted) ==
  [i \in 1..Len(values_sorted) |-> np_cumsum(values_sorted)[i] - values_sorted[i]]

\* Mutant of anchor_insert_at: the anchor's own index, without the + 1.
anchor_insert_before(names_sorted, anchor) ==
  LET idx == np_where_eq(names_sorted, anchor)
  IN IF Len(idx) = 0 THEN 0 ELSE idx[1]

\* rent_idx / housing_idx and the insertion index chosen from it.
anchor_insert_at(names_sorted, anchor) ==
  LET idx == np_where_eq(names_sorted, anchor)
  IN IF Len(idx) = 0 THEN 0 ELSE idx[1] + 1

\* percent = int(round(100 * value / total_value)) if total_value > 0 else 0
percent(value, total) ==
  IF total > 0 THEN round_div(100 * value, total) ELSE 0

\* expense_values.groupby(expense_categories).sum(), null keys dropped:
\* the group keys in sorted order and the sum of each group.
category_index(frame) ==
  SelectSeq(CategoryOrder, LAMBDA c : \E i \in 1..Len(frame) : frame[i].category = c)

RECURSIVE group_sum(_, _)
group_sum(frame, c) ==
  IF Len(frame) = 0 THEN 0
  ELSE (IF frame[1].category = c THEN frame[1].monthly_value_eur ELSE 0)
       + group_sum(Tail(frame), c)

category_sums(frame) ==
  [i \in 1..Len(category_index(frame)) |-> group_sum(frame, category_index(frame)[i])]

\* The part of both plot functions after the sort: offsets, position of
\* TOTAL, the three spliced lists, the percent of each label.
Splice(kind, idx, names_sorted, values_sorted, anchor) ==
  /\ chart' = kind
  /\ sorted_indices' = idx
  /\ insert_at' = anchor_insert_at(names_sorted, anchor)
  /\ all_names' = list_insert(names_sorted, insert_at', "TOTAL")
  /\ all_values' = list_insert(values_sorted, insert_at', np_sum(values_sorted))
  /\ all_cumulative' = list_insert(cumulative(values_sorted), insert_at', 0)
  /\ total_value' = np_sum(values_sorted)
  /\ percents' = [i \in 1..Len(all_values') |-> percent(all_values'[i], total_value')]
  /\ UNCHANGED << df, loadVars, normVars >>

\* The rows in the order np.argsort gave, then the splice.
Layout(kind, keys, values, anchor, idx) ==
  Splice(kind, idx, Take(keys, idx), Take(values, idx), anchor)

plot_expenses_waterfall ==
  LET expense_names == [i \in 1..Len(df) |-> df[i].name]
      expense_values == [i \in 1..Len(df) |-> df[i].monthly_value_eur]
  IN \E idx \in np_argsort(expense_values) :
       Layout("expenses", expense_names, expense_values, "Rent", idx)

plot_category_waterfall ==
  \E idx \in np_argsort(category_sums(df)) :
    Layout("category", category_index(df), category_sums(df), "Housing", idx)

\* ------------------------------------------------------------ normalization

DEFAULT_REPEAT_EVERY == 1

\* Currency codes of a record or a request: the three of the rate table, one
\* outside it, the empty string and None.
Currencies == { None, "", "EUR", "USD", "BRL", "JPY" }
TimeUnits == { "days", "weeks", "months", "years" }
RawValues == { NoneNum, << 1, 1 >>, << 100, 1 >> }

\* Interval counts of a record. With these and RawValues every product of
\* value, rate and day lengths stays within TLC's 32-bit integers.
RepeatCounts == { 1, 2 }

\* Exact rationals << numerator, denominator >>, denominator > 0, in lowest terms.
RECURSIVE gcd(_, _)
gcd(a, b) == IF b = 0 THEN a ELSE gcd(b, a % b)

Rat(n, d) == LET g == gcd(IF n < 0 THEN -n ELSE n, d) IN << n \div g, d \div g >>

RatMul(a, b) ==
  LET g1 == gcd(IF a[1] < 0 THEN -a[1] ELSE a[1], b[2])
      g2 == gcd(IF b[1] < 0 THEN -b[1] ELSE b[1], a[2])
  IN Rat((a[1] \div g1) * (b[1] \div g2), (a[2] \div g2) * (b[2] \div g1))

\* a / b for b > 0.
RatDiv(a, b) == RatMul(a, << b[2], b[1] >>)

\* The outcome of a call: a value returned or an exception raised.
Return(v) == [status |-> "return", value |-> v]
Raise(exc, args) == [status |-> "raise", exc |-> exc, args |-> args]

\* not x, for an optional string.
Falsy(x) == x = None \/ x = ""

rates_to_eur ==
  [c \in {"EUR", "USD", "BRL"} |->
     CASE c = "EUR" -> Rat(1, 1)
       [] c = "USD" -> RatDiv(Rat(1, 1), Rat(11570, 10000))
       [] c = "BRL" -> RatDiv(Rat(1, 1), Rat(61690, 10000))]

\* Mutant of get_fx_rate: the quotient of the two rates the wrong way round.
get_fx_rate_inverted(currency, target_currency) ==
  IF Falsy(target_currency) \/ Falsy(currency) \/ currency = target_currency
  THEN Return(Rat(1, 1))
  ELSE IF currency \notin DOMAIN rates_to_eur \/ target_currency \notin DOMAIN rates_to_eur
  THEN Raise("ValueError", << currency, target_currency >>)
  ELSE Return(RatDiv(rates_to_eur[target_currency], rates_to_eur[currency]))

get_fx_rate(currency, target_currency) ==
  IF Falsy(target_currency) \/ Falsy(currency) \/ currency = target_currency
  THEN Return(Rat(1, 1))
  ELSE IF currency \notin DOMAIN rates_to_eur \/ target_currency \notin DOMAIN rates_to_eur
  THEN Raise("ValueError", << currency, target_currency >>)
  ELSE LET value_in_eur == rates_to_eur[currency]
       IN IF target_currency = "EUR"
          THEN Return(value_in_eur)
          ELSE Return(RatDiv(value_in_eur, rates_to_eur[target_currency]))

\* The dictionary lookup: a KeyError for any key but the four units.
days_in_time_unit(time_unit) ==
  CASE time_unit = "days" -> Return(Rat(1, 1))
    [] time_unit = "weeks" -> Return(Rat(7, 1))
    [] time_unit = "months" -> Return(RatDiv(RatDiv(Rat(146097, 1), Rat(400, 1)), Rat(12, 1)))
    [] time_unit = "years" -> Return(RatDiv(Rat(146097, 1), Rat(400, 1)))
    [] OTHER -> Raise("KeyError", << time_unit >>)

\* interval is a positive integer.
time_conversion_factor(interval, interval_unit, target_unit) ==
  LET unit_days == days_in_time_unit(interval_unit)
      target_days == days_in_time_unit(target_unit)
  IN IF unit_days.status = "raise" THEN unit_days
     ELSE IF target_days.status = "raise" THEN target_days
     ELSE Return(RatDiv(target_days.value, RatMul(Rat(interval, 1), unit_days.value)))

\* expense.value * fx_rate * time_factor; None * float is a TypeError.
normalize_value(e, target_currency, target_time_unit) ==
  LET fx_rate == get_fx_rate(e.currency, target_currency)
      time_factor == time_conversion_factor(e.repeat_every, e.repeat_every_unit,
                                            target_time_unit)
  IN IF fx_rate.status = "raise" THEN fx_rate
     ELSE IF time_factor.status = "raise" THEN time_factor
     ELSE IF e.value = NoneNum THEN Raise("TypeError", << "NoneType", "float" >>)
     ELSE Return(RatMul(RatMul(e.value, fx_rate.value), time_factor.value))

\* The Expense built from one record of the file; a missing repeat_every
\* (the empty tuple) becomes the default.
Expense(raw) ==
  [value |-> raw.value,
   currency |-> raw.currency,
   repeat_every_unit |-> raw.repeat_every_unit,
   repeat_every |-> IF raw.repeat_every # NoneNum THEN raw.repeat_every[1]
                    ELSE DEFAULT_REPEAT_EVERY]

\* The loop of load_expenses over the records not yet read: the first call of
\* normalize_value that raises ends the load with its exception.
RECURSIVE load_from(_, _)
load_from(raws, expenses) ==
  IF Len(raws) = 0 THEN Return(expenses)
  ELSE LET e == Expense(raws[1])
           monthly_value == normalize_value(e, None, "months")
           monthly_value_eur == normalize_value(e, "EUR", "months")
           yearly_value == normalize_value(e, None, "years")
           yearly_value_eur == normalize_value(e, "EUR", "years")
       IN IF monthly_value.status = "raise" THEN monthly_value
          ELSE IF monthly_value_eur.status = "raise" THEN monthly_value_eur
          ELSE IF yearly_value.status = "raise" THEN yearly_value
          ELSE IF yearly_value_eur.status = "raise" THEN yearly_value_eur
          ELSE load_from(Tail(raws),
                 Append(expenses,
                   [value |-> e.value, currency |-> e.currency,
                    repeat_every_unit |-> e.repeat_every_unit,
                    repeat_every |-> e.repeat_every,
                    monthly_value |-> monthly_value.value,
                    monthly_value_eur |-> monthly_value_eur.value,
                    yearly_value |-> yearly_value.value,
                    yearly_value_eur |-> yearly_value_eur.value]))

Expenses ==
  [value : RawValues, currency : Currencies,
   repeat_every_unit : TimeUnits \cup {None}, repeat_every : RepeatCounts]

RawRecords ==
  [value : RawValues, currency : Currencies,
   repeat_every_unit : TimeUnits \cup {None},
   repeat_every : {NoneNum} \cup { << k >> : k \in RepeatCounts }]

NormalizeValue ==
  \E target_currency \in Currencies, target_time_unit \in TimeUnits \cup {None} :
    /\ call' = [fn |-> "normalize_value",
                target_currency |-> target_currency,
                target_time_unit |-> target_time_unit,
                result |-> normalize_value(expense, target_currency, target_time_unit)]
    /\ UNCHANGED << expense, chartVars, loadVars >>

GetFxRate ==
  \E target_currency \in Currencies :
    /\ call' = [fn |-> "get_fx_rate",
                currency |-> expense.currency,
                target_currency |-> target_currency,
                result |-> get_fx_rate(expense.currency, target_currency)]
    /\ UNCHANGED << expense, chartVars, loadVars >>

LoadExpenses ==
  /\ loaded' = load_from(raw_expenses, << >>)
  /\ UNCHANGED << raw_expenses, chartVars, normVars >>

\* ------------------------------------------------------- specifications

InitChart ==
  /\ chart = "none"
  /\ sorted_indices = << >>
  /\ insert_at = 0
  /\ all_names = << >>
  /\ all_values = << >>
  /\ all_cumulative = << >>
  /\ total_value = 0
  /\ percents = << >>

InitLoadIdle == raw_expenses = << >> /\ loaded = [status |-> "none"]
InitNormIdle == expense = [value |-> NoneNum] /\ call = [fn |-> "none"]

\* The charts: any data frame of up to MaxItems rows, nothing plotted yet.
Init ==
  /\ df \in DataFrames
  /\ InitChart
  /\ InitLoadIdle
  /\ InitNormIdle

Next == plot_expenses_waterfall \/ plot_category_waterfall

Spec == Init /\ [][Next]_vars

InitIdleChart == df = << >> /\ InitChart

\* The normalization of one Expense: normalize_value and get_fx_rate.
InitNorm ==
  /\ expense \in Expenses
  /\ call = [fn |-> "none"]
  /\ InitIdleChart
  /\ InitLoadIdle

NextNorm == NormalizeValue \/ GetFxRate

SpecNorm == InitNorm /\ [][NextNorm]_vars

\* load_expenses on an expense file of up to MaxExpenses records.
InitLoad ==
  /\ raw_expenses \in UNION { [1..n -> RawRecords] : n \in 0..MaxExpenses }
  /\ loaded = [status |-> "none"]
  /\ InitIdleChart
  /\ InitNormIdle

NextLoad == LoadExpenses

SpecLoad == InitLoad /\ [][NextLoad]_vars

\* ------------------------------------------------- properties of the layouts

\* The rows of a list other than the TOTAL row, in row order.
Without(list, at) == SubSeq(list, 1, at) \o SubSeq(list, at + 2, Len(list))

RowNames == Without(all_names, insert_at)
RowValues == Without(all_values, insert_at)
RowOffsets == Without(all_cumulative, insert_at)

\* Sum of the first k elements of a sequence.
RECURSIVE PrefixSum(_, _)
PrefixSum(s, k) == IF k = 0 THEN 0 ELSE PrefixSum(s, k - 1) + s[k]

GrandTotal == PrefixSum(RowValues, Len(RowValues))

Abs(x) == IF x < 0 THEN -x ELSE x

Count(s, x) == Cardinality({ i \in 1..Len(s) : s[i] = x })

NameValue(names, values) == [i \in 1..Len(names) |-> << names[i], values[i] >>]

Anchor == IF chart = "expenses" THEN "Rent" ELSE "Housing"

Ascending(s) == \A i \in 1..Len(s) - 1 : s[i] <= s[i + 1]

\* The categories of the frame that are not null.
FrameCategories == { df[i].category : i \in 1..Len(df) } \ {None}

\* Sum of the values of the frame's rows of category c, up to row k.
RECURSIVE FrameSum(_, _)
FrameSum(c, k) ==
  IF k = 0 THEN 0
  ELSE FrameSum(c, k - 1) + (IF df[k].category = c THEN df[k].monthly_value_eur ELSE 0)

\* C1: for a non-empty input the three lists hold one TOTAL row and every
\* input row exactly once (per item: every (name, value) of the frame as often
\* as the frame holds it; per category: every non-null category once, with the
\* sum of its values), so their length is the number of input rows + 1.
C1_OneTotalRowAdded ==
  (chart # "none" /\ Len(df) > 0) =>
    /\ Len(all_names) = Len(all_values)
    /\ Len(all_names) = Len(all_cumulative)
    /\ insert_at + 1 \in 1..Len(all_names)
    /\ all_names[insert_at + 1] = "TOTAL"
    /\ Count(RowNames, "TOTAL") = 0
    /\ chart = "expenses" =>
         /\ Len(all_names) = Len(df) + 1
         /\ \A i \in 1..Len(df) :
              LET row == << df[i].name, df[i].monthly_value_eur >>
              IN Count(NameValue(RowNames, RowValues), row)
                 = Count([j \in 1..Len(df) |-> << df[j].name, df[j].monthly_value_eur >>], row)
    /\ chart = "category" =>
         /\ Len(all_names) = Cardinality(FrameCategories) + 1
         /\ \A c \in FrameCategories :
              Count(NameValue(RowNames, RowValues), << c, FrameSum(c, Len(df)) >>) = 1

\* C1 witness: three items of two categories laid out per category.
C1_Witness ==
  chart = "category" /\ Len(df) = 3 /\ Len(all_names) = 3 /\ Cardinality(FrameCategories) = 2

\* C2: the TOTAL row's value is the sum of the values of the other rows and
\* its offset is 0, wherever it is spliced in.
C2_TotalIsSumAtOrigin ==
  chart # "none" =>
    /\ all_values[insert_at + 1] = GrandTotal
    /\ all_cumulative[insert_at + 1] = 0

\* C2 witness: TOTAL spliced in the middle of three rows with a non-zero sum.
C2_Witness ==
  chart = "expenses" /\ Len(all_values) = 4 /\ insert_at = 2 /\ all_values[3] # 0

\* C3: the other rows are ascending by value and rows of equal value keep
\* the order they have in the input.
C3_AscendingStable ==
  chart # "none" =>
    /\ Ascending(RowValues)
    /\ \A p, q \in 1..Len(RowValues) :
         (p < q /\ RowValues[p] = RowValues[q]) => sorted_indices[p] < sorted_indices[q]

\* C4: TOTAL directly follows the anchor row (Rent per item, Housing per
\* category); with no anchor row TOTAL is at index 0, the first row.
C4_TotalAfterAnchor ==
  chart # "none" =>
    IF Count(RowNames, Anchor) > 0
    THEN /\ insert_at >= 1
         /\ all_names[insert_at] = Anchor
         /\ all_names[insert_at + 1] = "TOTAL"
    ELSE /\ insert_at = 0
         /\ all_names[1] = "TOTAL"

\* C4 witness: Rent second of three items, TOTAL right after it.
C4_Witness ==
  /\ chart = "expenses"
  /\ Len(all_names) = 4
  /\ insert_at = 2
  /\ all_names[2] = "Rent"
  /\ all_names[1] # "Rent"

\* C5: with zero items the layout is empty, without a TOTAL row.
C5_EmptyInputEmptyOutput ==
  (chart # "none" /\ Len(df) = 0) =>
    all_names = << >> /\ all_values = << >> /\ all_cumulative = << >>

\* C9: the offset of every row but TOTAL is the sum of the values of the rows
\* before it in ascending order (TOTAL left out), the first being 0; with no
\* negative value the offsets do not decrease along the rows.
C9_ExclusivePrefixSums ==
  chart # "none" =>
    /\ Ascending(RowValues)
    /\ Len(RowOffsets) = Len(RowValues)
    /\ \A k \in 1..Len(RowValues) : RowOffsets[k] = PrefixSum(RowValues, k - 1)
    /\ (\A k \in 1..Len(RowValues) : RowValues[k] >= 0) => Ascending(RowOffsets)

\* C9 witness: TOTAL spliced in after the first of three rows, rows after it
\* with offsets that differ from zero.
C9_Witness ==
  /\ chart = "expenses"
  /\ Len(all_cumulative) = 4
  /\ insert_at = 1
  /\ all_cumulative[3] > 0
  /\ all_cumulative[4] > all_cumulative[3]

\* p is num / den rounded to the nearest integer, a tie to the even one.
IsRounded(p, num, den) ==
  /\ 2 * Abs(num - p * den) <= Abs(den)
  /\ 2 * Abs(num - p * den) = Abs(den) => p % 2 = 0

AllPercentsZero == \A i \in 1..Len(percents) : percents[i] = 0

\* C10 as stated: every row's percent is round(100 * value / grandTotal)
\* whenever grandTotal is not zero, a negative grandTotal included, and all
\* percents are 0 exactly when grandTotal is zero.
C10_PercentUnlessZeroTotal ==
  chart # "none" =>
    /\ Len(percents) = Len(all_values)
    /\ GrandTotal # 0 =>
         \A i \in 1..Len(percents) : IsRounded(percents[i], 100 * all_values[i], GrandTotal)
    /\ AllPercentsZero <=> GrandTotal = 0

\* C10 amended: every row's percent is round(100 * value / grandTotal)
\* whenever grandTotal is greater than zero, and all percents are 0 exactly
\* when grandTotal is zero or negative.
C10_PercentWhenPositiveTotal ==
  chart # "none" =>
    /\ Len(percents) = Len(all_values)
    /\ GrandTotal > 0 =>
         \A i \in 1..Len(percents) : IsRounded(percents[i], 100 * all_values[i], GrandTotal)
    /\ AllPercentsZero <=> GrandTotal <= 0

\* C10 witness: a negative grand total, every label at 0 percent.
C10_Witness ==
  chart # "none" /\ GrandTotal < 0 /\ Len(percents) >= 3 /\ AllPercentsZero

\* ------------------------------------------- properties of the normalization

\* The rate table as the claim gives it: units of EUR per unit of the code.
TableRate(c) ==
  CASE c = "EUR" -> << 1, 1 >>
    [] c = "USD" -> << 1000, 1157 >>
    [] c = "BRL" -> << 1000, 6169 >>

\* C6 (load_expenses): a record without a value, its currency convertible
\* and its unit valid, comes out of load_expenses with its four derived
\* fields null, and the load does not raise.
C6_NullValuePropagates ==
  (/\ loaded.status # "none"
   /\ \A i \in 1..Len(raw_expenses) :
        /\ raw_expenses[i].currency \in {None, "EUR", "USD", "BRL"}
        /\ raw_expenses[i].repeat_every_unit \in TimeUnits) =>
    /\ loaded.status = "return"
    /\ Len(loaded.value) = Len(raw_expenses)
    /\ \A i \in 1..Len(raw_expenses) :
         raw_expenses[i].value = NoneNum =>
           /\ loaded.value[i].monthly_value = NoneNum
           /\ loaded.value[i].monthly_value_eur = NoneNum
           /\ loaded.value[i].yearly_value = NoneNum
           /\ loaded.value[i].yearly_value_eur = NoneNum

\* C7: get_fx_rate returns exactly 1 when the target is omitted, the source
\* is absent or both are the same code; otherwise it raises the error naming
\* both codes when either is outside the table, and otherwise returns
\* rate(source to EUR) / rate(target to EUR).
C7_FxRate ==
  call.fn = "get_fx_rate" =>
    LET c == call.currency
        t == call.target_currency
        r == call.result
    IN IF t \in {None, ""} \/ c \in {None, ""} \/ c = t
       THEN r.status = "return" /\ r.value = << 1, 1 >>
       ELSE IF c \notin {"EUR", "USD", "BRL"} \/ t \notin {"EUR", "USD", "BRL"}
       THEN r.status = "raise" /\ r.exc = "ValueError" /\ r.args = << c, t >>
       ELSE r.status = "return" /\ RatMul(r.value, TableRate(t)) = TableRate(c)

\* C7 witness: a conversion between two codes of the table, neither EUR.
C7_Witness ==
  /\ call.fn = "get_fx_rate"
  /\ call.currency = "USD"
  /\ call.target_currency = "BRL"
  /\ call.result.status = "return"

\* C8: with the target time unit omitted normalize_value completes without
\* an error, the time factor being 1: the result is value * FX multiplier.
C8_OmittedUnitKeepsPeriod ==
  (/\ call.fn = "normalize_value"
   /\ call.target_time_unit = None
   /\ expense.value # NoneNum
   /\ expense.repeat_every_unit \in TimeUnits
   /\ get_fx_rate(expense.currency, call.target_currency).status = "return") =>
    /\ call.result.status = "return"
    /\ call.result.value
         = RatMul(expense.value, get_fx_rate(expense.currency, call.target_currency).value)
====
